---- MODULE Spec2Model ----
(***************************************************************************)
(* Quick LCA dashboard (lcawebv2.py).                                      *)
(*                                                                         *)
(* The program is a Streamlit script: every widget interaction (category   *)
(* selection, file upload, an edit in the data editor) re-runs the whole   *)
(* script from the top with the widgets' current values.  The state is the *)
(* widgets' values (uploaded table, selected category, data editor         *)
(* content) and what the last run put on the screen.                       *)
(*                                                                         *)
(* Numbers.  A cell is <<>> (NaN / empty cell) or <<v>> with v an integer. *)
(* Quantity, Emission Factor and Total Emission are held in units;         *)
(* Percent Emission, which np.round keeps to 2 decimals, is held in        *)
(* hundredths of a percent, so the hotspot threshold 10 reads 1000.        *)
(* Rounding is computed on the exact quotient (round half to even, as      *)
(* np.round); within the value sets used here the double-precision         *)
(* quotient rounds the same way.                                           *)
(* Material names are sequences of one-character strings, so that          *)
(* abbreviate() can measure and cut them.                                  *)
(***************************************************************************)
EXTENDS Integers, Sequences, FiniteSets, TLC

VARIABLES df_input, impact_choice, editor, screen

vars == <<df_input, impact_choice, editor, screen>>

---------------------------------------------------------------------------
(* Bounds *)

\* rows the user may add in the data editor (num_rows="dynamic")
MaxAdded == 1

---------------------------------------------------------------------------
(* Cells *)

NaN == <<>>

Num(v) == <<v>>

IsNaN(x) == x = NaN

\* float multiplication: NaN propagates
Mul(a, b) == IF IsNaN(a) \/ IsNaN(b) THEN NaN ELSE Num(a[1] * b[1])

\* x > k on a cell: any comparison with NaN is False
Gt(x, k) == ~IsNaN(x) /\ x[1] > k

None == <<"None">>

---------------------------------------------------------------------------
(* Program constants *)

impact_categories ==
  << "GWP100", "Acidification", "Eutrophication", "Photochemical Ozone", "Water Use",
     "Ecotoxicity", "Human Toxicity", "Resource Depletion (Fossil)",
     "Resource Depletion (Minerals)", "Fine Particulate", "Ozone Depletion",
     "Land Use", "Freshwater Depletion" >>

Range(s) == {s[i] : i \in DOMAIN s}

expected_cols == <<"Material", "Quantity", "Unit">> \o impact_categories

editable_cols == <<"Material", "Quantity", "Unit">>

\* abbreviate(name, maxlen=18)
abbreviate_maxlen == 18

\* hotspot threshold "> 10" in hundredths of a percent
HotspotThreshold == 1000

---------------------------------------------------------------------------
(* Uploaded tables *)

CatIdx(c) == CHOOSE k \in DOMAIN impact_categories : impact_categories[k] = c

\* Factor of the k-th category for the i-th row of a table whose GWP100
\* factor is gwp: the other twelve columns are the GWP100 column scaled by
\* -1, 0, 1, 2 or 3, differently per row and per category.
FactorCell(gwp, k, i) ==
  IF k = 1 THEN gwp ELSE Mul(gwp, Num(((k * i) % 5) - 1))

\* a table as pd.read_excel returns it: RangeIndex 0..n-1, one row per entry
\* <<Material, Quantity, GWP100 factor>> of spec
Table(spec, cols) ==
  [columns |-> cols,
   rows |-> [i \in DOMAIN spec |->
              [Material |-> spec[i][1],
               Quantity |-> spec[i][2],
               Unit     |-> "kg",
               ef       |-> [c \in Range(impact_categories) |->
                               FactorCell(spec[i][3], CatIdx(c), i)]]]]

LongName == [i \in 1..20 |-> "m"]

RowSpecs ==
  { << <<(<<"S","t","e","e","l","B","e","a","m">>), Num(10), Num(2)>>,
       <<(<<"P","l","a","s","t","i","c">>), Num(5), Num(1)>> >>,
    << <<(<<"A">>), Num(0), Num(5)>>, <<(<<"B">>), Num(0), Num(3)>> >>,
    << <<(<<"A">>), Num(1), Num(-2)>>, <<(<<"B">>), Num(1), Num(10)>> >>,
    << <<(<<"X">>), Num(3), Num(4)>> >>,
    << <<(<<"P">>), Num(1), Num(1000)>>, <<(<<"Q">>), Num(1), Num(1001)>>,
       <<LongName, Num(1), Num(7999)>> >>,
    << <<(<<"A">>), NaN, Num(2)>>, <<(<<"B">>), Num(1), NaN>> >>,
    << >> }

AllCols == Range(expected_cols)

\* tables with every required column, with or without an extra column
GoodFiles ==
  {Table(s, AllCols) : s \in RowSpecs}
    \cup {Table(s, AllCols \cup {"Notes"}) : s \in {<< <<(<<"X">>), Num(3), Num(4)>> >>}}

\* sets of required columns a table may lack
DropSets ==
  {{"Material"}, {"Quantity"}, {"Unit"}, {"GWP100"}, {"Water Use"},
   {"Freshwater Depletion"}, {"Material", "Quantity"},
   {"Unit", "Acidification", "Land Use"}, Range(impact_categories), AllCols}

\* tables lacking required columns, one of them with a column nobody asked for
BrokenFiles ==
  {Table(<< <<(<<"X">>), Num(3), Num(4)>> >>, AllCols \ d) : d \in DropSets}
    \cup {Table(<< <<(<<"X">>), Num(3), Num(4)>> >>, (AllCols \ {"Quantity"}) \cup {"Notes"})}

Files == GoodFiles \cup BrokenFiles

\* values the user may type into a Quantity cell (NaN: cell cleared)
EditVals == {NaN, Num(2)}

---------------------------------------------------------------------------
(* One run of the script *)

NoFile == [columns |-> {}, rows |-> <<>>, loaded |-> FALSE]

Loaded(t) == [columns |-> t.columns, rows |-> t.rows, loaded |-> TRUE]

\* variant of missing: only the category columns are looked for
missing_categories(df) ==
  SelectSeq(impact_categories, LAMBDA col : col \notin df.columns)

\* missing = [col for col in expected_cols if col not in df_input.columns]
missing(df) == SelectSeq(expected_cols, LAMBDA col : col \notin df.columns)

\* what st.data_editor shows before any edit: df_input[editable_cols]
EditorOf(df) ==
  [rows  |-> [i \in DOMAIN df.rows |->
               [index    |-> i - 1,
                Material |-> df.rows[i].Material,
                Quantity |-> df.rows[i].Quantity,
                Unit     |-> df.rows[i].Unit]],
   added |-> 0]

NoEditor == [rows |-> <<>>, added |-> 0]

\* emission_factors = df_input[impact_choice], read at an index label: a
\* label absent from df_input (a row added in the editor) has no factor
emission_factors(df, choice, index) ==
  IF index \in 0..(Len(df.rows) - 1) THEN df.rows[index + 1].ef[choice] ELSE NaN

\* variant of WithFactors: the factor column assigned by position (.values)
\* instead of by index label
WithFactors_positional(df, choice, rows) ==
  [i \in DOMAIN rows |->
    [index          |-> rows[i].index,
     Material       |-> rows[i].Material,
     Quantity       |-> rows[i].Quantity,
     Unit           |-> rows[i].Unit,
     EmissionFactor |-> emission_factors(df, choice, i - 1)]]

\* edited["Emission Factor"] = emission_factors: the assignment aligns on the
\* index label of each row of edited
WithFactors(df, choice, rows) ==
  [i \in DOMAIN rows |->
    [index          |-> rows[i].index,
     Material       |-> rows[i].Material,
     Quantity       |-> rows[i].Quantity,
     Unit           |-> rows[i].Unit,
     EmissionFactor |-> emission_factors(df, choice, rows[i].index)]]

\* variant of TotalEmissionOf: negative products clamped to 0
TotalEmissionOf_clamped(q, ef) ==
  IF IsNaN(q) \/ IsNaN(ef) THEN NaN
  ELSE Num(IF q[1] * ef[1] < 0 THEN 0 ELSE q[1] * ef[1])

\* edited["Quantity"] * edited["Emission Factor"], one row
TotalEmissionOf(q, ef) == Mul(q, ef)

\* variant of SumSkipNa: the first cell is left out of the sum
RECURSIVE SumSkipNa_tail(_)
SumSkipNa_tail(cells) ==
  IF Len(cells) <= 1 THEN 0
  ELSE (IF IsNaN(cells[Len(cells)]) THEN 0 ELSE cells[Len(cells)][1])
         + SumSkipNa_tail(SubSeq(cells, 1, Len(cells) - 1))

\* Series.sum(): NaN cells are skipped, the empty sum is 0
RECURSIVE SumSkipNa(_)
SumSkipNa(cells) ==
  IF cells = <<>> THEN 0
  ELSE (IF IsNaN(Head(cells)) THEN 0 ELSE Head(cells)[1]) + SumSkipNa(Tail(cells))

\* total_emission = edited["Total Emission"].sum()
total_emission(tes) == SumSkipNa(tes)

\* variant of RoundHalfEven: truncation toward minus infinity
RoundDown(n, d) == n \div d

\* variant of RoundHalfEven: np.round(x) without the 2 decimals
RoundToUnits(n, d) ==
  LET q == n \div (100 * d)
      r == n % (100 * d)
  IN  100 * (IF 2 * r < 100 * d THEN q
             ELSE IF 2 * r > 100 * d THEN q + 1
             ELSE IF q % 2 = 0 THEN q ELSE q + 1)

\* n / d rounded to the nearest integer, ties to even (np.round), d > 0
RoundHalfEven(n, d) ==
  LET q == n \div d
      r == n % d
  IN  IF 2 * r < d THEN q
      ELSE IF 2 * r > d THEN q + 1
      ELSE IF q % 2 = 0 THEN q ELSE q + 1

\* np.round(100 * te / total, 2), in hundredths; taken only when total > 0
PercentOf(te, total) ==
  IF IsNaN(te) THEN NaN ELSE Num(RoundHalfEven(10000 * te[1], total))

\* lines 66-72: edited with its three computed columns
Compute(df, choice, rows) ==
  LET withef == WithFactors(df, choice, rows)
      tes    == [i \in DOMAIN withef |->
                   TotalEmissionOf(withef[i].Quantity, withef[i].EmissionFactor)]
      total  == total_emission(tes)
  IN  [i \in DOMAIN withef |->
        [index           |-> withef[i].index,
         Material        |-> withef[i].Material,
         Quantity        |-> withef[i].Quantity,
         Unit            |-> withef[i].Unit,
         EmissionFactor  |-> withef[i].EmissionFactor,
         TotalEmission   |-> tes[i],
         PercentEmission |-> IF total > 0 THEN PercentOf(tes[i], total) ELSE Num(0)]]

\* results = edited[["Material", "Total Emission", "Percent Emission"]]
Results(edited) ==
  [i \in DOMAIN edited |->
    [Material        |-> edited[i].Material,
     TotalEmission   |-> edited[i].TotalEmission,
     PercentEmission |-> edited[i].PercentEmission]]

\* pct_color(val); is_float: the column holds floats (it holds the int 0
\* when the scalar 0 was assigned)
\* variant of pct_color: threshold test >= 10
pct_color_ge(val, is_float) ==
  IF ~IsNaN(val) /\ val[1] >= HotspotThreshold
  THEN "background-color: red; color: white;" ELSE ""

pct_color(val, is_float) ==
  LET color == IF is_float /\ Gt(val, HotspotThreshold) THEN "red" ELSE "#0074D9"
  IN  IF Gt(val, HotspotThreshold)
      THEN (IF color = "red" THEN "background-color: red; color: white;"
            ELSE "background-color: #0074D9; color: white;")
      ELSE ""

\* variant of nonzero: rows with Total Emission != 0
nonzero_ne(results) ==
  SelectSeq(results, LAMBDA r : ~IsNaN(r.TotalEmission) /\ r.TotalEmission[1] # 0)

\* nonzero = results[results["Total Emission"] > 0].reset_index(drop=True)
nonzero(results) == SelectSeq(results, LAMBDA r : Gt(r.TotalEmission, 0))

abbreviate(name) ==
  IF Len(name) <= abbreviate_maxlen THEN name
  ELSE SubSeq(name, 1, abbreviate_maxlen) \o <<".", ".", ".">>

bar_colors(percentages) ==
  [i \in DOMAIN percentages |->
    IF Gt(percentages[i], HotspotThreshold) THEN "#FF4136" ELSE "#0074D9"]

NoChart == [drawn |-> FALSE, x |-> <<>>, y |-> <<>>, marker_color |-> <<>>]

\* lines 84-114
Chart(results) ==
  LET nz == nonzero(results)
      labels == [i \in DOMAIN nz |-> abbreviate(nz[i].Material)]
      percentages == [i \in DOMAIN nz |-> nz[i].PercentEmission]
  IN  IF Len(labels) > 0
      THEN [drawn |-> TRUE, x |-> labels, y |-> percentages,
            marker_color |-> bar_colors(percentages)]
      ELSE NoChart

Blank ==
  [kind |-> "prompt", info |-> "Please upload an Excel file", error |-> <<>>,
   edited |-> <<>>, results |-> <<>>, styles |-> <<>>, chart |-> NoChart,
   total |-> NaN]

\* the whole script, lines 48-118
Script(df, choice, ed) ==
  IF ~df.loaded THEN Blank
  ELSE IF missing(df) # <<>>
  THEN [Blank EXCEPT !.kind = "missing", !.info = "", !.error = missing(df)]
  ELSE
    LET edited  == Compute(df, choice, ed.rows)
        total   == total_emission([i \in DOMAIN edited |-> edited[i].TotalEmission])
        results == Results(edited)
        chart   == Chart(results)
    IN  [kind    |-> "results",
         info    |-> IF chart.drawn THEN "" ELSE "No nonzero emissions to display.",
         error   |-> <<>>,
         edited  |-> edited,
         results |-> results,
         styles  |-> [i \in DOMAIN results |->
                       pct_color(results[i].PercentEmission, total > 0)],
         chart   |-> chart,
         total   |-> Num(total)]

---------------------------------------------------------------------------
(* Interactions; each one re-runs the script *)

Init ==
  /\ df_input = NoFile
  /\ impact_choice = impact_categories[1]
  /\ editor = NoEditor
  /\ screen = Script(NoFile, impact_categories[1], NoEditor)

\* variant of SelectCategory: the selection changes and the results are kept
SelectCategory_stale(c) ==
  /\ c # impact_choice
  /\ impact_choice' = c
  /\ UNCHANGED <<df_input, editor, screen>>

\* st.sidebar.selectbox: the user picks another category
SelectCategory(c) ==
  /\ c # impact_choice
  /\ impact_choice' = c
  /\ UNCHANGED <<df_input, editor>>
  /\ screen' = Script(df_input, c, editor)

\* st.file_uploader: the user uploads a table; the data editor is created
\* afresh over the new table when no column is missing
Upload(t) ==
  /\ df_input' = Loaded(t)
  /\ editor' = IF missing(Loaded(t)) = <<>> THEN EditorOf(Loaded(t)) ELSE NoEditor
  /\ UNCHANGED impact_choice
  /\ screen' = Script(df_input', impact_choice, editor')

\* the user removes the uploaded file
RemoveFile ==
  /\ df_input.loaded
  /\ df_input' = NoFile
  /\ editor' = NoEditor
  /\ UNCHANGED impact_choice
  /\ screen' = Script(NoFile, impact_choice, NoEditor)

\* data editor: the user changes the Quantity cell of the row at position pos
EditQuantity(pos, v) ==
  /\ screen.kind = "results"
  /\ pos \in DOMAIN editor.rows
  /\ v # editor.rows[pos].Quantity
  /\ editor' = [editor EXCEPT !.rows[pos].Quantity = v]
  /\ UNCHANGED <<df_input, impact_choice>>
  /\ screen' = Script(df_input, impact_choice, editor')

\* data editor: the user appends a row; it takes the next index label and
\* empty cells
AddRow ==
  /\ screen.kind = "results"
  /\ editor.added < MaxAdded
  /\ editor' = [rows  |-> Append(editor.rows,
                            [index    |-> Len(df_input.rows) + editor.added,
                             Material |-> None,
                             Quantity |-> NaN,
                             Unit     |-> "None"]),
                added |-> editor.added + 1]
  /\ UNCHANGED <<df_input, impact_choice>>
  /\ screen' = Script(df_input, impact_choice, editor')

\* data editor: the user deletes the row at position pos; the rows left keep
\* their index labels
DeleteRow(pos) ==
  /\ screen.kind = "results"
  /\ pos \in DOMAIN editor.rows
  /\ editor' = [editor EXCEPT !.rows =
                  SubSeq(editor.rows, 1, pos - 1)
                    \o SubSeq(editor.rows, pos + 1, Len(editor.rows))]
  /\ UNCHANGED <<df_input, impact_choice>>
  /\ screen' = Script(df_input, impact_choice, editor')

Next ==
  \/ \E c \in Range(impact_categories) : SelectCategory(c)
  \/ \E t \in Files : Upload(t)
  \/ RemoveFile
  \/ \E pos \in DOMAIN editor.rows, v \in EditVals : EditQuantity(pos, v)
  \/ AddRow
  \/ \E pos \in DOMAIN editor.rows : DeleteRow(pos)

Spec == Init /\ [][Next]_vars

---------------------------------------------------------------------------
(* Properties *)

Shown == screen.kind = "results"

Red == "background-color: red; color: white;"

\* te is the product of the cells q and ef (NaN when either is NaN)
IsProduct(te, q, ef) ==
  IF IsNaN(q) \/ IsNaN(ef) THEN IsNaN(te)
  ELSE ~IsNaN(te) /\ te[1] = q[1] * ef[1]

\* p hundredths is 100 * te / total rounded to 2 decimals: a nearest multiple
\* of 0.01 (NaN when te is NaN); total > 0
IsRoundedShare(p, te, total) ==
  IF IsNaN(te) THEN IsNaN(p)
  ELSE /\ ~IsNaN(p)
       /\ 2 * (p[1] * total - 10000 * te[1]) <= total
       /\ 2 * (10000 * te[1] - p[1] * total) <= total

\* sum of the cells of a column that hold a number
RECURSIVE SumUpTo(_, _)
SumUpTo(cells, n) ==
  IF n = 0 THEN 0
  ELSE SumUpTo(cells, n - 1) + (IF IsNaN(cells[n]) THEN 0 ELSE cells[n][1])

ColumnSum(cells) == SumUpTo(cells, Len(cells))

TotalColumn == [i \in DOMAIN screen.edited |-> screen.edited[i].TotalEmission]

PercentColumn == [i \in DOMAIN screen.edited |-> screen.edited[i].PercentEmission]

GrandTotal == screen.total[1]

\* the factor the loaded table holds for the row carrying index label k under
\* category c; a row added in the editor has none
OwnFactor(k, c) ==
  IF k + 1 \in DOMAIN df_input.rows THEN df_input.rows[k + 1].ef[c] ELSE NaN

\* C1: when results are shown, each row's Percent Emission is
\* 100 * Total Emission / total rounded to 2 decimals if the total is > 0,
\* and 0 for every row otherwise, in which case no row is marked a hotspot in
\* the table or in the chart.
C1_PercentEmission ==
  Shown =>
    IF GrandTotal > 0
    THEN \A i \in DOMAIN screen.edited :
           IsRoundedShare(screen.edited[i].PercentEmission,
                          screen.edited[i].TotalEmission, GrandTotal)
    ELSE /\ \A i \in DOMAIN screen.edited :
               /\ screen.edited[i].PercentEmission = Num(0)
               /\ screen.styles[i] = ""
         /\ \A j \in DOMAIN screen.chart.marker_color :
               screen.chart.marker_color[j] # "#FF4136"

\* C1 witness: a positive total with a share that had to be rounded
C1_Witness ==
  /\ Shown
  /\ GrandTotal > 0
  /\ \E i \in DOMAIN screen.edited :
       /\ ~IsNaN(screen.edited[i].TotalEmission)
       /\ screen.edited[i].PercentEmission[1] * GrandTotal
            # 10000 * screen.edited[i].TotalEmission[1]

\* C2: a row is shown red in the results table, and its bar red in the
\* chart, exactly when its rounded Percent Emission is strictly above 10.
C2_Hotspot ==
  Shown =>
    /\ \A i \in DOMAIN screen.results :
         (screen.styles[i] = Red) <=>
           (~IsNaN(screen.results[i].PercentEmission)
              /\ screen.results[i].PercentEmission[1] > 1000)
    /\ \A i \in DOMAIN screen.results :
         screen.styles[i] \in {Red, ""}
    /\ \A j \in DOMAIN screen.chart.y :
         (screen.chart.marker_color[j] = "#FF4136") <=>
           (~IsNaN(screen.chart.y[j]) /\ screen.chart.y[j][1] > 1000)

\* C2 witness: a row at exactly 10.00 is not red, a row at 10.01 is, in the
\* table and in the chart
C2_Witness ==
  /\ Shown
  /\ \E i, j \in DOMAIN screen.results :
       /\ screen.results[i].PercentEmission = Num(1000)
       /\ screen.styles[i] = ""
       /\ screen.results[j].PercentEmission = Num(1001)
       /\ screen.styles[j] = Red
  /\ \E i, j \in DOMAIN screen.chart.y :
       /\ screen.chart.y[i] = Num(1000)
       /\ screen.chart.marker_color[i] = "#0074D9"
       /\ screen.chart.y[j] = Num(1001)
       /\ screen.chart.marker_color[j] = "#FF4136"

\* C3: every row's Total Emission is Quantity * Emission Factor, unclamped,
\* and the displayed total is the sum of the rows' Total Emission values.
C3_TotalEmission ==
  Shown =>
    /\ \A i \in DOMAIN screen.edited :
         IsProduct(screen.edited[i].TotalEmission,
                   screen.edited[i].Quantity, screen.edited[i].EmissionFactor)
    /\ ~IsNaN(screen.total)
    /\ GrandTotal = ColumnSum(TotalColumn)

\* C3 witness: a row with a negative Total Emission among several rows
C3_Witness ==
  /\ Shown
  /\ Len(screen.edited) >= 2
  /\ GrandTotal # 0
  /\ \E i \in DOMAIN screen.edited :
       /\ ~IsNaN(screen.edited[i].TotalEmission)
       /\ screen.edited[i].TotalEmission[1] < 0

\* C4: a row whose Quantity or Emission Factor is missing makes the
\* aggregation signal an error: results are never shown over such a row.
C4_InvalidNumericInput ==
  Shown =>
    \A i \in DOMAIN screen.edited :
      ~IsNaN(screen.edited[i].Quantity) /\ ~IsNaN(screen.edited[i].EmissionFactor)

\* C5: when the total is > 0 the rounded percentages sum to 100 within
\* 0.01 per row.
C5_PercentSum ==
  (Shown /\ GrandTotal > 0) =>
    /\ ColumnSum(PercentColumn) - 10000 <= Len(screen.edited)
    /\ 10000 - ColumnSum(PercentColumn) <= Len(screen.edited)

\* C5 witness: a positive total whose rounded percentages do not sum to 100.00
C5_Witness ==
  /\ Shown
  /\ GrandTotal > 0
  /\ ColumnSum(PercentColumn) # 10000

C7_OrderPreserved ==
  Shown =>
    /\ Len(screen.results) = Len(editor.rows)
    /\ \A i \in DOMAIN screen.results :
         /\ screen.results[i].Material = editor.rows[i].Material
         /\ IsProduct(screen.results[i].TotalEmission, editor.rows[i].Quantity,
                      OwnFactor(editor.rows[i].index, impact_choice))
         /\ IF GrandTotal > 0
            THEN IsRoundedShare(screen.results[i].PercentEmission,
                                screen.results[i].TotalEmission, GrandTotal)
            ELSE screen.results[i].PercentEmission = Num(0)

\* C7 witness: the first row of the table was deleted and a row was added;
\* the row now first has a Total Emission of its own that the deleted row's
\* factor would not give
C7_Witness ==
  /\ Shown
  /\ Len(editor.rows) >= 2
  /\ editor.rows[1].index = 1
  /\ editor.rows[Len(editor.rows)].index >= Len(df_input.rows)
  /\ ~IsNaN(screen.results[1].TotalEmission)
  /\ ~IsProduct(screen.results[1].TotalEmission, editor.rows[1].Quantity,
                OwnFactor(0, impact_choice))

\* C8: the missing list is shown exactly when a required column is absent;
\* it holds exactly the absent required columns, and nothing is computed then.
C8_MissingColumns ==
  /\ (screen.kind = "missing") <=>
       (df_input.loaded /\ ~(AllCols \subseteq df_input.columns))
  /\ screen.kind = "missing" =>
       /\ Range(screen.error) = AllCols \ df_input.columns
       /\ Len(screen.error) = Cardinality(AllCols \ df_input.columns)
       /\ screen.edited = <<>>
       /\ screen.results = <<>>
       /\ ~screen.chart.drawn
       /\ IsNaN(screen.total)
  /\ Shown => (df_input.loaded /\ AllCols \subseteq df_input.columns
                 /\ screen.error = <<>>)

\* C8 witness: a table lacking a basic column and holding an unrequired one
C8_Witness ==
  /\ screen.kind = "missing"
  /\ "Notes" \in df_input.columns
  /\ screen.error = <<"Quantity">>

\* what is shown is the aggregation of the editor's current Quantities with
\* the loaded factors of the selected category
ShowsCurrent ==
  Shown =>
    /\ Len(screen.edited) = Len(editor.rows)
    /\ \A i \in DOMAIN screen.edited :
         /\ screen.edited[i].Quantity = editor.rows[i].Quantity
         /\ screen.edited[i].EmissionFactor
              = OwnFactor(editor.rows[i].index, impact_choice)
         /\ IsProduct(screen.edited[i].TotalEmission, editor.rows[i].Quantity,
                      OwnFactor(editor.rows[i].index, impact_choice))
         /\ screen.results[i].TotalEmission = screen.edited[i].TotalEmission
         /\ screen.results[i].PercentEmission = screen.edited[i].PercentEmission
         /\ IF GrandTotal > 0
            THEN IsRoundedShare(screen.edited[i].PercentEmission,
                                screen.edited[i].TotalEmission, GrandTotal)
            ELSE screen.edited[i].PercentEmission = Num(0)
         /\ (screen.styles[i] = Red) <=>
              (~IsNaN(screen.edited[i].PercentEmission)
                 /\ screen.edited[i].PercentEmission[1] > 1000)
    /\ GrandTotal = ColumnSum(TotalColumn)

\* a step that leaves the table and the category alone (an edit in the
\* editor) leaves the factor of every row that stays
EditKeepsFactors ==
  (Shown /\ df_input' = df_input /\ impact_choice' = impact_choice) =>
    \A i \in DOMAIN screen.edited : \A j \in DOMAIN screen'.edited :
      screen'.edited[j].index = screen.edited[i].index =>
        screen'.edited[j].EmissionFactor = screen.edited[i].EmissionFactor

\* C9: after any sequence of Quantity edits and category switches the screen
\* shows the aggregation of the current Quantities with the factors of the
\* selected category, and an edit never changes a row's Emission Factor.
C9_Recomputed == []ShowsCurrent /\ [][EditKeepsFactors]_vars

\* C9 witness: a category other than the first is selected and a Quantity
\* differs from the loaded one, on a table whose factors differ by category
C9_Witness ==
  /\ Shown
  /\ impact_choice # impact_categories[1]
  /\ \E i \in DOMAIN editor.rows :
       /\ editor.rows[i].index + 1 \in DOMAIN df_input.rows
       /\ editor.rows[i].Quantity # df_input.rows[editor.rows[i].index + 1].Quantity
       /\ ~IsNaN(screen.edited[i].TotalEmission)
       /\ screen.edited[i].EmissionFactor
            # df_input.rows[editor.rows[i].index + 1].ef[impact_categories[1]]
       /\ screen.edited[i].TotalEmission[1] # 0

\* C10: the chart holds exactly the result rows with Total Emission > 0, in
\* order; every row marked a hotspot is among them; with no such row no chart
\* is drawn and the notice is shown.
C10_Chart ==
  Shown =>
    LET kept == SelectSeq(screen.results,
                  LAMBDA r : ~IsNaN(r.TotalEmission) /\ r.TotalEmission[1] > 0)
    IN  /\ screen.chart.drawn <=> (kept # <<>>)
        /\ Len(screen.chart.x) = Len(kept)
        /\ Len(screen.chart.y) = Len(kept)
        /\ \A j \in DOMAIN kept :
             /\ screen.chart.y[j] = kept[j].PercentEmission
             /\ screen.chart.x[j] = abbreviate(kept[j].Material)
        /\ \A i \in DOMAIN screen.results :
             screen.styles[i] = Red =>
               (~IsNaN(screen.results[i].TotalEmission)
                  /\ screen.results[i].TotalEmission[1] > 0)
        /\ (kept = <<>>) =>
             (screen.chart = NoChart
                /\ screen.info = "No nonzero emissions to display.")
        /\ (kept # <<>>) => screen.info = ""

\* C10 witness: a chart that leaves out a row with a negative Total Emission
\* and holds a hotspot bar
C10_Witness ==
  /\ Shown
  /\ screen.chart.drawn
  /\ Len(screen.chart.x) < Len(screen.results)
  /\ \E i \in DOMAIN screen.results :
       /\ ~IsNaN(screen.results[i].TotalEmission)
       /\ screen.results[i].TotalEmission[1] < 0
  /\ \E j \in DOMAIN screen.chart.marker_color :
       screen.chart.marker_color[j] = "#FF4136"

====
